---- MODULE Spec2Model ----
(***************************************************************************)
(* Model of the RAG incident pipeline of todo_app_react_py_server:         *)
(*   src/rag.py      preprocessing, problem_table search, response         *)
(*                   synthesis (the interactive query path)                *)
(*   src/rag/rag2.py BugRAGSystem: bug store with embeddings               *)
(* and of its task API:                                                    *)
(*   src/api.py      create_task, update_task, delete_task on table tasks  *)
(*                                                                         *)
(* The specifications share    the variables below; each one drives one     *)
(* component and leaves the other components' variables idle:              *)
(*   SpecPre    preprocess_data on bounded raw datasets                    *)
(*   SpecStore  store_bug / bulk_insert_bugs against the bug store         *)
(*   SpecQuery  main(): search_data, then generate_final_response          *)
(*   SpecSearch similarity searches and tier lookups on a loaded store      *)
(*   SpecIngest store_in_supabase replacing the rows of problem_table       *)
(*   SpecApi    POST, PUT and DELETE requests served by concurrent workers  *)
(*                                                                         *)
(* Units: timestamps and durations are integers counting tenths of an      *)
(* hour; similarities are integers counting hundredths.                    *)
(***************************************************************************)
EXTENDS Integers, Sequences, FiniteSets, TLC

VARIABLES
    \* ---- preprocess_data (src/rag.py)
    df,             \* the DataFrame handed to the last preprocess_data call
    out,            \* the DataFrame it returned
    preState,       \* "raw" | "done" | "error" (ValueError raised)
    prevLen,        \* row count before the last repeated deduplication
    dedupRuns,      \* how often drop_duplicates was re-applied to out
    \* ---- BugRAGSystem (src/rag/rag2.py): the committed database
    bugs,           \* rows of table bugs
    bug_embeddings, \* rows of table bug_embeddings
    next_id,        \* next value of the bugs.id sequence
    \* ---- the running bulk_insert_bugs call
    bulk_status,    \* "none" | "running" | "done" | "raised"
    bulk_bugs,      \* its argument bugs
    batch_size,     \* its argument batch_size
    bulk_i,         \* the loop variable i
    commits,        \* log: one entry per conn.commit() of the call
    bulk_failed,    \* the batch whose processing raised, if any
    \* ---- history of the store_bug calls
    store_calls,    \* number of store_bug calls made
    last_store,     \* what the last store_bug call did
    \* ---- the interactive query path, main() of src/rag.py
    problem_table,  \* rows of problem_table, in storage order
    csv_readable,   \* whether read_file(file_path) returns a DataFrame
    csv_rows,       \* the rows of that DataFrame
    query_state,    \* "start" | "searched" | "answered" | "exception"
    request,        \* similarity threshold and limit the caller asks for
    user_prompt_vector, \* generate_vector(user_prompt); <<>> for None
    search_results, \* what search_data returned
    llm_outcome,    \* what the chat call of generate_final_response did
    final_response, \* the lines generate_final_response returned
    \* ---- read calls on the bug store (src/rag/rag2.py)
    rag_request,    \* query vector, similarity_threshold and limit of the calls
    search_call,    \* the last search_similar_bugs call and its rows
    hybrid_call,    \* the last hybrid_search call and its rows
    tier_call,      \* the last get_bugs_by_resolution_tier call and its rows
    \* ---- store_in_supabase (src/rag.py), which rewrites problem_table
    ingest_state,   \* "idle", "called", "inserting" or "returned"
    data_list,      \* the rows handed to store_in_supabase
    ingest_idx,     \* idx of the enumerate loop: rows gone through so far
    ingest_error,   \* the exception the except branch printed, if any
    \* ---- the task API (src/api.py) behind gunicorn's workers
    tasks,          \* the committed rows of table tasks
    task_seq,       \* the largest id AUTOINCREMENT has handed out
    db_writer,      \* the worker whose connection holds the write lock, or 0
    worker,         \* per worker: the request in hand and its position
    served,         \* the number of requests taken so far
    deletes_ok      \* per task id: the DELETE requests answered 200

preVars == <<df, out, preState, prevLen, dedupRuns>>

storeVars == <<bugs, bug_embeddings, next_id, bulk_status, bulk_bugs,
               batch_size, bulk_i, commits, bulk_failed,
               store_calls, last_store>>

queryVars == <<problem_table, csv_readable, csv_rows, query_state, request,
               user_prompt_vector, search_results, llm_outcome, final_response>>

searchVars == <<rag_request, search_call, hybrid_call, tier_call>>

ingestVars == <<ingest_state, data_list, ingest_idx, ingest_error>>

apiVars == <<tasks, task_seq, db_writer, worker, served, deletes_ok>>

vars == <<df, out, preState, prevLen, dedupRuns,
          bugs, bug_embeddings, next_id, bulk_status, bulk_bugs,
          batch_size, bulk_i, commits, bulk_failed, store_calls, last_store,
          problem_table, csv_readable, csv_rows, query_state, request,
          user_prompt_vector, search_results, llm_outcome, final_response,
          rag_request, search_call, hybrid_call, tier_call,
          ingest_state, data_list, ingest_idx, ingest_error,
          tasks, task_seq, db_writer, worker, served, deletes_ok>>

----------------------------------------------------------------------------
(* Bounds *)

MaxRows == 2
MaxDedupRuns == 2
MaxStoreCalls == 1
MaxBulk == 3
MaxBatchSize == 2
MaxCsvRows == 3
MaxTableRows == 2
MaxStored == 2
MaxData == 2
MaxWorkers == 2
MaxRequests == 2
MaxSample == 1

\* gunicorn's worker processes, and the ids AUTOINCREMENT can hand out.
Workers == 1..MaxWorkers
TaskIds == 1..(MaxSample + MaxRequests)

----------------------------------------------------------------------------
(* pandas values *)

\* A missing cell (NaN / None) of a text column.
NaN == "NaN"

\* A missing timestamp (NaT) and a cell pd.to_datetime cannot parse.
NaT == -1
Unparsable == -2

\* max(x, 0.1): the floor of resolution_time_hours, in tenths of an hour.
MinResolutionTime == 1

\* The text values of the model in Python's string order ('' sorts first).
StringOrder == <<"", "Backend", "Frontend", "Unknown", "d", "n">>

SeqToSet(s) == {s[i] : i \in DOMAIN s}

Column(rows, name) == [i \in DOMAIN rows |-> rows[i][name]]

ValueCount(col, v) == Cardinality({i \in DOMAIN col : col[i] = v})

\* Series.mode(): NaN is dropped, every other value (the empty string
\* included) is counted; all most-frequent values are returned, sorted.
mode(col) ==
    LET present == SeqToSet(col) \ {NaN}
        best(v) == \A w \in present : ValueCount(col, w) <= ValueCount(col, v)
    IN  SelectSeq(StringOrder, LAMBDA v : v \in present /\ best(v))

fillna(v, value) == IF v = NaN THEN value ELSE v

replace(v, old, new) == IF v = old THEN new ELSE v

\* pd.to_datetime(errors='coerce'): what cannot be parsed becomes NaT.
to_datetime(t) == IF t >= 0 THEN t ELSE NaT

fillnat(t, now) == IF t = NaT THEN now ELSE t

max(a, b) == IF a >= b THEN a ELSE b

\* lambda x: max(x, 0.1) if pd.notnull(x) else 0.1   (x = NaN never occurs
\* after both timestamp columns were filled; the subtraction is passed in).
clamp_unfloored(x) == x

clamp(x) == max(x, MinResolutionTime)

\* df.drop_duplicates(subset=['close_notes', 'description'], keep='first')
SameKey(r, s) ==
    r.close_notes = s.close_notes /\ r.description = s.description

RECURSIVE KeepFirst(_, _)
KeepFirst(rows, kept) ==
    IF rows = <<>> THEN kept
    ELSE LET r == Head(rows)
         IN  IF \E i \in DOMAIN kept : SameKey(kept[i], r)
             THEN KeepFirst(Tail(rows), kept)
             ELSE KeepFirst(Tail(rows), Append(kept, r))

drop_duplicates(rows) == KeepFirst(rows, <<>>)

\* Lines 38-54 applied to one row: the fills, the timestamp conversion and
\* the derived resolution_time_hours column.
FillRow(r, mode_value, now1, now2) ==
    LET created  == fillnat(to_datetime(r.sys_created_on), now1)
        resolved == fillnat(to_datetime(r.resolved_at), now2)
    IN  [ close_notes |-> replace(fillna(r.close_notes, "Unknown"), "", "Unknown"),
          description |-> replace(fillna(r.description, "Unknown"), "", "Unknown"),
          u_resolution_tier_2 |->
              replace(fillna(r.u_resolution_tier_2, mode_value), "", mode_value),
          resolved_at |-> resolved,
          sys_created_on |-> created,
          resolution_time_hours |-> clamp(resolved - created) ]

\* preprocess_data raises ValueError exactly when mode() is empty.
preprocess_raises(rows) == mode(Column(rows, "u_resolution_tier_2")) = <<>>

\* A slip in the order of the steps: duplicates dropped before the text fills.
preprocess_rows_dedup_first(rows, now1, now2) ==
    LET mode_value == mode(Column(rows, "u_resolution_tier_2"))[1]
        deduped == drop_duplicates(rows)
    IN  [i \in DOMAIN deduped |-> FillRow(deduped[i], mode_value, now1, now2)]

\* The DataFrame preprocess_data returns when it does not raise.
preprocess_rows(rows, now1, now2) ==
    LET mode_value == mode(Column(rows, "u_resolution_tier_2"))[1]
        filled == [i \in DOMAIN rows |-> FillRow(rows[i], mode_value, now1, now2)]
    IN  drop_duplicates(filled)

----------------------------------------------------------------------------
(* SpecPre: preprocess_data on every raw dataset of at most MaxRows rows *)

\* (close_notes, description) pairs of the raw rows.
RawTexts == { <<NaN, "d">>, <<"", "d">>, <<"n", "d">>, <<"n", NaN>> }

RawCategories == {NaN, "", "Backend", "Frontend"}

\* (resolved_at, sys_created_on): in order, reversed, both unusable.
RawTimes == { <<5, 2>>, <<0, 2>>, <<NaT, Unparsable>> }

\* pd.Timestamp('now') is read twice (lines 47, 48); the clock does not go back.
NowValues == {3, 4}

RawRows ==
    { [ close_notes |-> t[1], description |-> t[2], u_resolution_tier_2 |-> c,
        resolved_at |-> ts[1], sys_created_on |-> ts[2] ] :
      t \in RawTexts, c \in RawCategories, ts \in RawTimes }

SeqsUpTo(S, n) == UNION { [1..k -> S] : k \in 0..n }

\* No preprocess_data call: the variables of SpecPre at rest.
IdlePre ==
    /\ df = <<>>
    /\ out = <<>>
    /\ preState = "raw"
    /\ prevLen = 0
    /\ dedupRuns = 0

\* An empty bug database and no call made: the variables of SpecStore at rest.
IdleStore ==
    /\ bugs = {}
    /\ bug_embeddings = {}
    /\ next_id = 1
    /\ bulk_status = "none"
    /\ bulk_bugs = <<>>
    /\ batch_size = 1
    /\ bulk_i = 0
    /\ commits = <<>>
    /\ bulk_failed = [ids |-> <<>>, written |-> 0, cause |-> "none", record |-> 0]
    /\ store_calls = 0
    /\ last_store = [op |-> "none"]

\* No query made, an empty problem_table and an empty CSV file: the
\* variables of SpecQuery at rest.
IdleQuery ==
    /\ problem_table = <<>>
    /\ csv_readable = TRUE
    /\ csv_rows = <<>>
    /\ query_state = "start"
    /\ request = [similarity_threshold |-> 70, limit |-> 10]
    /\ user_prompt_vector = <<>>
    /\ search_results = <<>>
    /\ llm_outcome = "not called"
    /\ final_response = <<>>

\* No read call made on the bug store: the variables of SpecSearch at rest.
IdleSearch ==
    /\ rag_request = [query |-> <<1, 0>>, similarity_threshold |-> 70, limit |-> 10]
    /\ search_call = [status |-> "none"]
    /\ hybrid_call = [status |-> "none"]
    /\ tier_call = [status |-> "none"]

\* store_in_supabase not called: the variables of SpecIngest at rest.
IdleIngest ==
    /\ ingest_state = "idle"
    /\ data_list = <<>>
    /\ ingest_idx = 0
    /\ ingest_error = "none"

\* A worker that has no request in hand.
IdleWorker ==
    [ pc |-> "idle", method |-> "none", task_id |-> 0,
      task_detail |-> <<>>, task_status |-> <<>>, tx |-> {},
      code |-> 0, data |-> {}, writes |-> 0 ]

\* No request taken and an empty table tasks: the variables of SpecApi at
\* rest.
IdleApi ==
    /\ tasks = {}
    /\ task_seq = 0
    /\ db_writer = 0
    /\ worker = [w \in Workers |-> IdleWorker]
    /\ served = 0
    /\ deletes_ok = [i \in TaskIds |-> 0]

InitPre ==
    /\ df \in SeqsUpTo(RawRows, MaxRows)
    /\ out = <<>>
    /\ preState = "raw"
    /\ prevLen = 0
    /\ dedupRuns = 0
    /\ IdleStore
    /\ IdleQuery
    /\ IdleSearch
    /\ IdleIngest
    /\ IdleApi

\* preprocess_data(df) returns the cleaned DataFrame.
PreprocessData ==
    /\ preState = "raw"
    /\ ~preprocess_raises(df)
    /\ \E now1 \in NowValues, now2 \in NowValues :
          /\ now1 <= now2
          /\ out' = preprocess_rows(df, now1, now2)
    /\ preState' = "done"
    /\ UNCHANGED <<df, prevLen, dedupRuns>>
    /\ UNCHANGED storeVars
    /\ UNCHANGED queryVars
    /\ UNCHANGED searchVars
    /\ UNCHANGED ingestVars
    /\ UNCHANGED apiVars

\* preprocess_data(df) raises ValueError("Preprocessing failed ...").
PreprocessDataRaises ==
    /\ preState = "raw"
    /\ preprocess_raises(df)
    /\ preState' = "error"
    /\ UNCHANGED <<df, out, prevLen, dedupRuns>>
    /\ UNCHANGED storeVars
    /\ UNCHANGED queryVars
    /\ UNCHANGED searchVars
    /\ UNCHANGED ingestVars
    /\ UNCHANGED apiVars

\* The deduplication step run once more on the returned DataFrame.
DeduplicateAgain ==
    /\ preState = "done"
    /\ dedupRuns < MaxDedupRuns
    /\ prevLen' = Len(out)
    /\ out' = drop_duplicates(out)
    /\ dedupRuns' = dedupRuns + 1
    /\ UNCHANGED <<df, preState>>
    /\ UNCHANGED storeVars
    /\ UNCHANGED queryVars
    /\ UNCHANGED searchVars
    /\ UNCHANGED ingestVars
    /\ UNCHANGED apiVars

NextPre == PreprocessData \/ PreprocessDataRaises \/ DeduplicateAgain

SpecPre == InitPre /\ [][NextPre]_vars

----------------------------------------------------------------------------
(* BugRAGSystem (src/rag/rag2.py) *)

\* Python None in an Optional[str] field.
None == "None"

\* `if value:` on an Optional[str]: None and '' are falsy.
Truthy(v) == v \notin {None, ""}

Min(a, b) == IF a <= b THEN a ELSE b

\* The dataclass BugData.
BugData(incident_number, product, description, closing_notes, t1, t2, t3) ==
    [ incident_number |-> incident_number, product |-> product,
      description |-> description, closing_notes |-> closing_notes,
      resolution_tier_1 |-> t1, resolution_tier_2 |-> t2,
      resolution_tier_3 |-> t3, problem_id |-> None ]

\* The bugs the callers pass in.
BugInputs ==
    { BugData("INC-1", "WebApp", "login crash", "fixed validation",
              "Technical", "Frontend", "Input Validation"),
      BugData("INC-2", "API", "timeout", None, None, None, None),
      BugData("INC-3", "WebApp", "timeout", "restarted", "Technical", None, None),
      BugData("INC-4", "API", "slow page", "", None, "Backend", None) }

\* Embedding vectors: two-dimensional, of integer length, so that cosine
\* similarities are rational.
Vectors == << <<1, 0>>, <<0, 1>>, <<3, 4>>, <<4, 3>>, <<-1, 0>> >>

\* The strings texts are assembled from, to tell texts apart.
TextParts ==
    << "login crash", "timeout", "slow page", "fixed validation", "restarted",
       "Technical", "Frontend", "Backend", "Input Validation", "WebApp", "API" >>

PartCode(part) ==
    IF \E i \in DOMAIN TextParts : TextParts[i] = part
    THEN CHOOSE i \in DOMAIN TextParts : TextParts[i] = part
    ELSE 0

RECURSIVE TextCode(_)
TextCode(text) ==
    IF text = <<>> THEN 0 ELSE PartCode(Head(text)) + 2 * TextCode(Tail(text))

\* The embedding service as a fixed function of the text (a text is the
\* sequence of the pieces its f-string concatenates).
EmbeddingModel(text) == Vectors[(TextCode(text) % Len(Vectors)) + 1]

\* Configs that hold the resolution and combined texts only for a bug with
\* closing notes.
embedding_configs_notes_only(bug) ==
    << [content_type |-> "description", text |-> <<bug.description>>] >>
    \o (IF Truthy(bug.closing_notes)
        THEN << [content_type |-> "resolution",
                 text |-> <<"Resolution: ", bug.closing_notes>>],
                [content_type |-> "combined",
                 text |-> <<"Product: ", bug.product, " | Description: ",
                            bug.description, " | Resolution: ",
                            bug.closing_notes>>] >>
        ELSE <<>>)

\* _store_embeddings, lines 74-93: the (content_type, text) pairs of a bug.
embedding_configs(bug) ==
    LET resolution_text ==
            <<"Resolution: ", bug.closing_notes>>
            \o (IF Truthy(bug.resolution_tier_1)
                THEN <<" | Tier 1: ", bug.resolution_tier_1>> ELSE <<>>)
            \o (IF Truthy(bug.resolution_tier_2)
                THEN <<" | Tier 2: ", bug.resolution_tier_2>> ELSE <<>>)
            \o (IF Truthy(bug.resolution_tier_3)
                THEN <<" | Tier 3: ", bug.resolution_tier_3>> ELSE <<>>)
        combined_text ==
            <<"Product: ", bug.product, " | Description: ", bug.description>>
            \o (IF Truthy(bug.closing_notes)
                THEN <<" | Resolution: ", bug.closing_notes>> ELSE <<>>)
    IN  << [content_type |-> "description", text |-> <<bug.description>>] >>
        \o (IF Truthy(bug.closing_notes)
            THEN << [content_type |-> "resolution", text |-> resolution_text] >>
            ELSE <<>>)
        \o << [content_type |-> "combined", text |-> combined_text] >>

\* _store_embeddings, lines 96-101: the rows the loop has inserted once k
\* configs went through generate_embedding and INSERT.
store_embeddings(bug_id, bug, k) ==
    LET configs == embedding_configs(bug)
    IN  { [ bug_id |-> bug_id,
            content_type |-> configs[c].content_type,
            content_text |-> configs[c].text,
            embedding |-> EmbeddingModel(configs[c].text) ] :
          c \in 1..k }

NumConfigs(bug) == Len(embedding_configs(bug))

\* A row of table bugs: the columns of the INSERT plus the generated id.
BugRow(bug, id) == [id |-> id] @@ bug

\* The BugData a row was inserted from.
BugOf(row) == [f \in (DOMAIN row) \ {"id"} |-> row[f]]

\* The unique constraint on bugs.incident_number: the INSERT raises.
DuplicateKey(incident_number, rows) ==
    \E r \in rows : r.incident_number = incident_number

\* conn.commit(): the transaction's rows become part of the table.
Commit(table, tx) == table \cup tx

\* A connection that keeps what was written before the exception.
RollbackKeepsWrites(table, tx) == table \cup tx

\* `with conn:` left by an exception: psycopg2 rolls the transaction back.
Rollback(table, tx) == table

\* A slice that loses the last record of every batch.
slice_short(s, a, b) == SubSeq(s, a + 1, Min(b, Len(s)) - 1)

\* Python s[a:b] for 0 <= a <= b.
slice(s, a, b) == SubSeq(s, a + 1, Min(b, Len(s)))

\* bug_id_map of bulk_insert_bugs: incident_number -> id over the rows the
\* SELECT sees.
bug_id_map(rows, incident_number) ==
    (CHOOSE r \in rows : r.incident_number = incident_number).id

----------------------------------------------------------------------------
(* SpecStore: store_bug and bulk_insert_bugs *)

InitStore ==
    IdlePre /\ IdleStore /\ IdleQuery /\ IdleSearch /\ IdleIngest /\ IdleApi

\* store_bug(bug_data) returns the new id.
StoreBug ==
    /\ bulk_status # "running"
    /\ store_calls < MaxStoreCalls
    /\ \E bug \in BugInputs :
          LET bug_id == next_id
              tx_bugs == {BugRow(bug, bug_id)}
              tx_emb == store_embeddings(bug_id, bug, NumConfigs(bug))
          IN  /\ ~DuplicateKey(bug.incident_number, bugs)
              /\ bugs' = Commit(bugs, tx_bugs)
              /\ bug_embeddings' = Commit(bug_embeddings, tx_emb)
              /\ next_id' = next_id + 1
              /\ last_store' = [ op |-> "store_bug", bug_id |-> bug_id,
                                 raised |-> FALSE, inserted |-> TRUE,
                                 written |-> NumConfigs(bug) ]
    /\ store_calls' = store_calls + 1
    /\ UNCHANGED <<bulk_status, bulk_bugs, batch_size, bulk_i, commits, bulk_failed>>
    /\ UNCHANGED preVars
    /\ UNCHANGED queryVars
    /\ UNCHANGED searchVars
    /\ UNCHANGED ingestVars
    /\ UNCHANGED apiVars

\* store_bug(bug_data) raises: the INSERT hits the unique constraint, or
\* generate_embedding / the embedding INSERT fails after k embeddings.
StoreBugRaises ==
    /\ bulk_status # "running"
    /\ store_calls < MaxStoreCalls
    /\ \E bug \in BugInputs :
          LET bug_id == next_id
          IN  IF DuplicateKey(bug.incident_number, bugs)
              THEN /\ bugs' = Rollback(bugs, {})
                   /\ bug_embeddings' = Rollback(bug_embeddings, {})
                   /\ last_store' = [ op |-> "store_bug", bug_id |-> bug_id,
                                      raised |-> TRUE, inserted |-> FALSE,
                                      written |-> 0 ]
              ELSE \E k \in 0..(NumConfigs(bug) - 1) :
                   /\ bugs' = Rollback(bugs, {BugRow(bug, bug_id)})
                   /\ bug_embeddings' =
                          Rollback(bug_embeddings, store_embeddings(bug_id, bug, k))
                   /\ last_store' = [ op |-> "store_bug", bug_id |-> bug_id,
                                      raised |-> TRUE, inserted |-> TRUE,
                                      written |-> k ]
    /\ next_id' = next_id + 1
    /\ store_calls' = store_calls + 1
    /\ UNCHANGED <<bulk_status, bulk_bugs, batch_size, bulk_i, commits, bulk_failed>>
    /\ UNCHANGED preVars
    /\ UNCHANGED queryVars
    /\ UNCHANGED searchVars
    /\ UNCHANGED ingestVars
    /\ UNCHANGED apiVars

\* bulk_insert_bugs(bugs, batch_size) is entered.
BulkInsertBugs ==
    /\ bulk_status = "none"
    /\ \E input \in SeqsUpTo(BugInputs, MaxBulk), bs \in 1..MaxBatchSize :
          /\ bulk_bugs' = input
          /\ batch_size' = bs
    /\ bulk_i' = 0
    /\ bulk_status' = "running"
    /\ commits' = <<>>
    /\ UNCHANGED <<bugs, bug_embeddings, next_id, bulk_failed, store_calls, last_store>>
    /\ UNCHANGED preVars
    /\ UNCHANGED queryVars
    /\ UNCHANGED searchVars
    /\ UNCHANGED ingestVars
    /\ UNCHANGED apiVars

\* The rows of batch[1..j] as executemany inserts them.
BatchRows(batch, j) == { BugRow(batch[m], next_id + m - 1) : m \in 1..j }

\* The first record of the batch the unique constraint rejects (0: none).
FirstDuplicate(batch) ==
    LET dup(j) == DuplicateKey(batch[j].incident_number,
                               bugs \cup BatchRows(batch, j - 1))
    IN  IF \E j \in DOMAIN batch : dup(j)
        THEN CHOOSE j \in DOMAIN batch : dup(j) /\ \A m \in 1..(j - 1) : ~dup(m)
        ELSE 0

\* The embedding rows of the batch once records 1..j-1 are done and k
\* configs of record j are.
BatchEmbeddings(batch, j, k) ==
    LET visible == bugs \cup BatchRows(batch, Len(batch))
        id(m) == bug_id_map(visible, batch[m].incident_number)
    IN  UNION ( { store_embeddings(id(m), batch[m], NumConfigs(batch[m])) :
                  m \in 1..(j - 1) }
                \cup { IF j \in DOMAIN batch
                       THEN store_embeddings(id(j), batch[j], k) ELSE {} } )

\* One iteration of the loop of bulk_insert_bugs, through conn.commit().
BulkBatch ==
    /\ bulk_status = "running"
    /\ bulk_i < Len(bulk_bugs)
    /\ LET batch == slice(bulk_bugs, bulk_i, bulk_i + batch_size)
           n == Len(batch)
       IN  /\ FirstDuplicate(batch) = 0
           /\ bugs' = Commit(bugs, BatchRows(batch, n))
           /\ bug_embeddings' =
                  Commit(bug_embeddings, BatchEmbeddings(batch, n + 1, 0))
           /\ commits' = Append(commits,
                  [ batch |-> batch,
                    ids |-> [m \in 1..n |-> next_id + m - 1] ])
           /\ next_id' = next_id + n
    /\ bulk_i' = bulk_i + batch_size
    /\ UNCHANGED <<bulk_status, bulk_bugs, batch_size, bulk_failed,
                   store_calls, last_store>>
    /\ UNCHANGED preVars
    /\ UNCHANGED queryVars
    /\ UNCHANGED searchVars
    /\ UNCHANGED ingestVars
    /\ UNCHANGED apiVars

\* One iteration raises: executemany hits the unique constraint at record
\* d, or the embedding of record j fails after k of its configs. The
\* exception leaves the function through `with conn:`.
BulkBatchRaises ==
    /\ bulk_status = "running"
    /\ bulk_i < Len(bulk_bugs)
    /\ LET batch == slice(bulk_bugs, bulk_i, bulk_i + batch_size)
           n == Len(batch)
           d == FirstDuplicate(batch)
       IN  IF d # 0
           THEN /\ bugs' = Rollback(bugs, BatchRows(batch, d - 1))
                /\ bug_embeddings' = Rollback(bug_embeddings, {})
                /\ bulk_failed' = [ ids |-> [m \in 1..(d - 1) |-> next_id + m - 1],
                                    written |-> 0, cause |-> "duplicate",
                                    record |-> bulk_i + d ]
                /\ next_id' = next_id + d
           ELSE \E j \in 1..n : \E k \in 0..(NumConfigs(batch[j]) - 1) :
                /\ bugs' = Rollback(bugs, BatchRows(batch, n))
                /\ bug_embeddings' =
                       Rollback(bug_embeddings, BatchEmbeddings(batch, j, k))
                /\ bulk_failed' =
                       [ ids |-> [m \in 1..n |-> next_id + m - 1],
                         written |-> Cardinality(BatchEmbeddings(batch, j, k)),
                         cause |-> "embedding", record |-> bulk_i + j ]
                /\ next_id' = next_id + n
    /\ bulk_status' = "raised"
    /\ UNCHANGED <<bulk_bugs, batch_size, bulk_i, commits, store_calls, last_store>>
    /\ UNCHANGED preVars
    /\ UNCHANGED queryVars
    /\ UNCHANGED searchVars
    /\ UNCHANGED ingestVars
    /\ UNCHANGED apiVars

\* range(0, len(bugs), batch_size) is exhausted: bulk_insert_bugs returns.
BulkReturn ==
    /\ bulk_status = "running"
    /\ bulk_i >= Len(bulk_bugs)
    /\ bulk_status' = "done"
    /\ UNCHANGED <<bugs, bug_embeddings, next_id, bulk_bugs, batch_size, bulk_i,
                   commits, bulk_failed, store_calls, last_store>>
    /\ UNCHANGED preVars
    /\ UNCHANGED queryVars
    /\ UNCHANGED searchVars
    /\ UNCHANGED ingestVars
    /\ UNCHANGED apiVars

NextStore ==
    \/ StoreBug
    \/ StoreBugRaises
    \/ BulkInsertBugs
    \/ BulkBatch
    \/ BulkBatchRaises
    \/ BulkReturn

SpecStore == InitStore /\ [][NextStore]_vars

----------------------------------------------------------------------------
(* The interactive query path of src/rag.py *)

\* LIMIT 10 of the SQL text of search_data.
SearchLimit == 10

Dot(a, b) == a[1] * b[1] + a[2] * b[2]

\* The length of a vector of Vectors (an integer by choice of Vectors).
Norm(v) == CHOOSE n \in 0..13 : n * n = Dot(v, v)

\* 1 - (a <=> b): the cosine similarity, in hundredths.
Similarity(a, b) == (100 * Dot(a, b)) \div (Norm(a) * Norm(b))

\* a <=> b: pgvector's cosine distance, in hundredths.
CosineDistance(a, b) == 100 - Similarity(a, b)

\* The tuple the SELECT of search_data returns for a row: id,
\* description_content, summary_content, u_resolution_tier_2,
\* resolution_time_hours, similarity.
ResultTuple(row, v) ==
    << row.id, row.description_content, row.summary_content,
       row.u_resolution_tier_2, row.resolution_time_hours,
       Similarity(row.description_vector, v) >>

\* ORDER BY <distance> LIMIT n over the rows S, dist[x] the distance of row
\* x: the rows are taken closest first until n are listed or none is left;
\* among rows at the same distance any may come next.
RECURSIVE RankedPrefixes(_, _, _, _)
RankedPrefixes(S, dist, n, acc) ==
    IF n <= 0 \/ S = {}
    THEN {acc}
    ELSE LET closest == { x \in S : \A y \in S : dist[x] <= dist[y] }
         IN  UNION { RankedPrefixes(S \ {x}, dist, n - 1, Append(acc, x)) :
                     x \in closest }

\* An ORDER BY that lists the farthest rows first.
OrderByDistanceLimit_farthest_first(table, v, n) ==
    LET dist == [i \in DOMAIN table |->
                    0 - CosineDistance(table[i].description_vector, v)]
        picks == RankedPrefixes(DOMAIN table, dist, n, <<>>)
    IN  { [a \in DOMAIN p |-> ResultTuple(table[p[a]], v)] : p \in picks }

\* ORDER BY description_vector <=> v LIMIT n: every list of n rows (or of
\* all rows, if fewer) in ascending distance that leaves out no row closer
\* than a listed one; rows at equal distance come in any order.
OrderByDistanceLimit(table, v, n) ==
    LET dist == [i \in DOMAIN table |->
                    CosineDistance(table[i].description_vector, v)]
        picks == RankedPrefixes(DOMAIN table, dist, n, <<>>)
    IN  { [a \in DOMAIN p |-> ResultTuple(table[p[a]], v)] : p \in picks }

\* round(num / den) for the :.2f formats, den > 0.
Round(num, den) == (2 * num + den) \div (2 * den)

Sum(col) ==
    LET RECURSIVE Acc(_)
        Acc(i) == IF i = 0 THEN 0 ELSE col[i] + Acc(i - 1)
    IN  Acc(Len(col))

\* df[column].mode()[0] if the mode is not empty else "Unknown"
mode_or_unknown(rows) ==
    LET m == mode(Column(rows, "u_resolution_tier_2"))
    IN  IF m = <<>> THEN "Unknown" ELSE m[1]

\* top_result_tier if top_result_tier else mode_category
tier_or_mode(results, mode_category) ==
    IF results # <<>> /\ Truthy(results[1][4]) THEN results[1][4]
    ELSE mode_category

\* generate_final_response, lines 214-224: the category it reports. The top
\* result is looked at only inside `if df is not None and not df.empty`.
response_category(rows, results) ==
    IF rows # <<>> THEN tier_or_mode(results, mode_or_unknown(rows))
    ELSE mode_or_unknown(rows)

\* A percentage taken over the rows that carry a category.
trending_percentage_over_tagged(rows, results) ==
    LET tagged == SelectSeq(rows, LAMBDA r : r.u_resolution_tier_2 # NaN)
    IN  IF tagged # <<>>
        THEN Round(ValueCount(Column(rows, "u_resolution_tier_2"),
                              response_category(rows, results)) * 10000,
                   Len(tagged))
        ELSE 0

\* generate_final_response, lines 217-226, in hundredths of a percent.
trending_percentage(rows, results) ==
    IF rows # <<>>
    THEN Round(ValueCount(Column(rows, "u_resolution_tier_2"),
                          response_category(rows, results)) * 10000,
               Len(rows))
    ELSE 0

\* calculate_approximate_resolution_time raises when preprocess_data does.
resolution_time_raises(rows) == rows # <<>> /\ preprocess_raises(rows)

\* calculate_approximate_resolution_time when it returns: <<>> for None,
\* else <<mean>> in hundredths of an hour.
calculate_approximate_resolution_time(rows, results, now1, now2) ==
    IF rows = <<>> THEN <<>>
    ELSE LET pre == preprocess_rows(rows, now1, now2)
             category == tier_or_mode(results, mode_or_unknown(pre))
             category_data == SelectSeq(pre,
                 LAMBDA r : r.u_resolution_tier_2 = category)
         IN  IF category_data = <<>> THEN <<>>
             ELSE << Round(Sum(Column(category_data, "resolution_time_hours")) * 10,
                           Len(category_data)) >>

\* The content used when the completion is empty (lines 289-293).
EmptyFallback ==
    << <<"Response",
         "Please provide more details or check the system documentation for guidance.">>,
       <<"Actionable Steps", "">>,
       <<"-", "Review the system documentation.">>,
       <<"-", "Verify input data for accuracy.">>,
       <<"-", "Contact support if the issue persists.">> >>

\* The content used when the chat call raises (lines 308-312).
ErrorFallback ==
    << <<"Response",
         "Error generating response. Please try again or check the system logs.">>,
       <<"Actionable Steps", "">>,
       <<"-", "Check system logs for errors.">>,
       <<"-", "Verify input data.">>,
       <<"-", "Contact support if the issue persists.">> >>

\* A completion in the requested format, and one that ignores it.
FormattedCompletion ==
    << <<"Response", "llm response">>,
       <<"Actionable Steps", "">>,
       <<"-", "llm step">> >>

FreeTextCompletion == << <<"text", "llm text">> >>

\* Lines 298-300 / 313-315: the three closing lines.
closing_lines(category, avg_resolution_time, trending) ==
    << <<"Resolution Category", category>>,
       IF avg_resolution_time # <<>>
       THEN <<"Estimated Resolution Time", "hours", avg_resolution_time[1]>>
       ELSE <<"Estimated Resolution Time",
              "Unknown (no historical data for this category)", 0>>,
       <<"Trending Issue Percentage", trending>> >>

\* An except branch that returns the fallback text alone.
error_response_bare(category, avg_resolution_time, trending) == ErrorFallback

\* Lines 305-317: the response of the except branch.
error_response(category, avg_resolution_time, trending) ==
    ErrorFallback \o closing_lines(category, avg_resolution_time, trending)

\* Lines 285-304: the response of the try branch, by what ollama.chat gave.
try_response(outcome, category, avg_resolution_time, trending) ==
    LET content == CASE outcome = "empty" -> EmptyFallback
                     [] outcome = "formatted" -> FormattedCompletion
                     [] outcome = "free text" -> FreeTextCompletion
    IN  content \o closing_lines(category, avg_resolution_time, trending)

\* generate_final_response raises: df is None on line 214, or
\* preprocess_data raises inside calculate_approximate_resolution_time.
final_response_raises(readable, rows) ==
    ~readable \/ resolution_time_raises(rows)

----------------------------------------------------------------------------
(* SpecQuery: main() of src/rag.py *)

\* Rows of the historical CSV as read_file returns them (read_csv turns
\* empty cells into NaN).
CsvRowKinds ==
    { [ close_notes |-> k[1], description |-> "d", u_resolution_tier_2 |-> k[2],
        resolved_at |-> k[3], sys_created_on |-> 2 ] :
      k \in { <<"n", NaN, 5>>, <<"n", "Backend", 5>>, <<"n", "Frontend", 6>>,
              <<NaN, "Backend", 0>> } }

\* (u_resolution_tier_2, description_vector) of the rows of problem_table.
TableRowKinds ==
    { <<"Backend", <<3, 4>>>>, <<"Frontend", <<1, 0>>>>, <<"", <<0, 1>>>> }

\* store_in_supabase numbers the rows 1, 2, ... (id = idx + 1).
TableRow(i, kind) ==
    [ id |-> i, description_content |-> "d", summary_content |-> "s",
      u_resolution_tier_2 |-> kind[1], resolution_time_hours |-> 30,
      description_vector |-> kind[2] ]

\* What the caller of search asks for.
Requests ==
    { [similarity_threshold |-> 70, limit |-> 10],
      [similarity_threshold |-> 60, limit |-> 1] }

\* Vectors of user prompts.
PromptVectors == { <<1, 0>>, <<4, 3>> }

InitQuery ==
    /\ IdlePre
    /\ IdleStore
    /\ IdleSearch
    /\ IdleIngest
    /\ IdleApi
    /\ \E kinds \in SeqsUpTo(TableRowKinds, MaxTableRows) :
          problem_table = [i \in DOMAIN kinds |-> TableRow(i, kinds[i])]
    /\ csv_readable \in BOOLEAN
    /\ csv_rows \in SeqsUpTo(CsvRowKinds, MaxCsvRows)
    /\ csv_readable = FALSE => csv_rows = <<>>
    /\ query_state = "start"
    /\ request \in Requests
    /\ user_prompt_vector = <<>>
    /\ search_results = <<>>
    /\ llm_outcome = "not called"
    /\ final_response = <<>>

\* search_data(user_prompt) with a prompt vector and a working database.
SearchData ==
    /\ query_state = "start"
    /\ \E v \in PromptVectors :
          /\ user_prompt_vector' = v
          /\ search_results' \in OrderByDistanceLimit(problem_table, v, SearchLimit)
    /\ query_state' = "searched"
    /\ UNCHANGED <<problem_table, csv_readable, csv_rows, request,
                   llm_outcome, final_response>>
    /\ UNCHANGED <<preVars, storeVars, searchVars, ingestVars, apiVars>>

\* search_data(user_prompt) when generate_vector returns None (empty prompt
\* or embedding failure) or the database call raises: the except branch
\* returns [].
SearchDataFails ==
    /\ query_state = "start"
    /\ user_prompt_vector' \in PromptVectors \cup {<<>>}
    /\ search_results' = <<>>
    /\ query_state' = "searched"
    /\ UNCHANGED <<problem_table, csv_readable, csv_rows, request,
                   llm_outcome, final_response>>
    /\ UNCHANGED <<preVars, storeVars, searchVars, ingestVars, apiVars>>

\* generate_final_response(user_prompt, search_results) returns.
GenerateFinalResponse ==
    /\ query_state = "searched"
    /\ ~final_response_raises(csv_readable, csv_rows)
    /\ \E outcome \in {"raises", "empty", "formatted", "free text"},
          now1 \in NowValues, now2 \in NowValues :
          LET category == response_category(csv_rows, search_results)
              trending == trending_percentage(csv_rows, search_results)
              avg == calculate_approximate_resolution_time(
                         csv_rows, search_results, now1, now2)
          IN  /\ now1 <= now2
              /\ llm_outcome' = outcome
              /\ final_response' =
                     IF outcome = "raises"
                     THEN error_response(category, avg, trending)
                     ELSE try_response(outcome, category, avg, trending)
    /\ query_state' = "answered"
    /\ UNCHANGED <<problem_table, csv_readable, csv_rows, request,
                   user_prompt_vector, search_results>>
    /\ UNCHANGED <<preVars, storeVars, searchVars, ingestVars, apiVars>>

\* generate_final_response raises before its try block; main() does not
\* catch it.
GenerateFinalResponseRaises ==
    /\ query_state = "searched"
    /\ final_response_raises(csv_readable, csv_rows)
    /\ query_state' = "exception"
    /\ UNCHANGED <<problem_table, csv_readable, csv_rows, request,
                   user_prompt_vector, search_results, llm_outcome,
                   final_response>>
    /\ UNCHANGED <<preVars, storeVars, searchVars, ingestVars, apiVars>>

NextQuery ==
    \/ SearchData
    \/ SearchDataFails
    \/ GenerateFinalResponse
    \/ GenerateFinalResponseRaises

SpecQuery == InitQuery /\ [][NextQuery]_vars

----------------------------------------------------------------------------
(* The read calls of BugRAGSystem (src/rag/rag2.py) *)

\* SQL `column = value`: not true when either side is NULL.
SqlEq(column, value) == column # None /\ value # None /\ column = value

\* bugs b JOIN bug_embeddings be ON b.id = be.bug_id
Join(bug_rows, embedding_rows) ==
    { <<b, e>> \in bug_rows \X embedding_rows : b.id = e.bug_id }

\* A row of the result set: the columns of the bug, the similarity score
\* and the content type of the embedding.
SearchRow(b, e, v) ==
    BugOf(b) @@ [ similarity_score |-> Similarity(e.embedding, v),
                  content_type |-> e.content_type ]

\* The SQL function search_similar_bugs(query_embedding, content_type,
\* product_filter, similarity_threshold, limit): the embedding records,
\* restricted by content type and product where given, at or above the
\* threshold, most similar first, cut to limit.
search_similar_bugs_sql(bug_rows, embedding_rows, v, ctype, product, threshold, limit) ==
    LET hits == { j \in Join(bug_rows, embedding_rows) :
                    /\ ctype # None => j[2].content_type = ctype
                    /\ product # None => j[1].product = product
                    /\ Similarity(j[2].embedding, v) >= threshold }
        dist == [j \in hits |-> CosineDistance(j[2].embedding, v)]
    IN  { [a \in DOMAIN p |-> SearchRow(p[a][1], p[a][2], v)] :
          p \in RankedPrefixes(hits, dist, limit, <<>>) }

\* A column_map that is off by one level.
column_map_shifted ==
    (1 :> "resolution_tier_2") @@ (2 :> "resolution_tier_3")
        @@ (3 :> "resolution_tier_1")

\* get_bugs_by_resolution_tier, lines 140-144.
column_map ==
    (1 :> "resolution_tier_1") @@ (2 :> "resolution_tier_2")
        @@ (3 :> "resolution_tier_3")

\* SELECT * FROM bugs WHERE <column> = value ORDER BY created_at DESC
\* LIMIT limit. created_at is not among the inserted columns: it is the
\* time of the insert, so the rows come latest id first.
select_by_tier(bug_rows, column, tier_value, limit) ==
    LET hits == { r \in bug_rows : SqlEq(r[column], tier_value) }
        age == [r \in hits |-> 0 - r.id]
    IN  CHOOSE p \in RankedPrefixes(hits, age, limit, <<>>) : TRUE

\* hybrid_search, line 182: the column f"resolution_tier_{tier_level}".
resolution_tier_column(tier_level) ==
    CASE tier_level = 1 -> "resolution_tier_1"
      [] tier_level = 2 -> "resolution_tier_2"
      [] tier_level = 3 -> "resolution_tier_3"

\* hybrid_search, lines 175-183: the equality conditions appended to
\* where_conditions, in order. resolution_tiers is the sequence of the
\* dict's (tier_level, tier_value) items; None and {} are both <<>>.
filter_conditions(product, resolution_tiers) ==
    LET supported(item) == item[1] \in {1, 2, 3}
        tiers == SelectSeq(resolution_tiers, supported)
    IN  (IF Truthy(product)
         THEN << [column |-> "product", value |-> product] >>
         ELSE <<>>)
        \o [i \in DOMAIN tiers |-> [column |-> resolution_tier_column(tiers[i][1]),
                                    value |-> tiers[i][2]]]

\* hybrid_search, lines 173-185 and 207: the list handed to execute.
hybrid_params(v, similarity_threshold, product, resolution_tiers, limit) ==
    LET filters == filter_conditions(product, resolution_tiers)
    IN  <<v, similarity_threshold>>
        \o [i \in DOMAIN filters |-> filters[i].value]
        \o <<v, limit>>

\* hybrid_search, lines 187-204: the %s of the statement, one in the SELECT
\* list, two in the similarity condition, one per equality condition, one
\* in ORDER BY and one in LIMIT.
hybrid_placeholders(product, resolution_tiers) ==
    1 + 2 + Len(filter_conditions(product, resolution_tiers)) + 1 + 1

\* cursor.execute(query, params): psycopg2 fills every %s from params and
\* raises when they do not match in number.
execute_raises(placeholders, params) == placeholders # Len(params)

\* The statement of hybrid_search with params bound to its %s in order.
hybrid_rows(bug_rows, embedding_rows, filters, params) ==
    LET n == Len(filters)
        select_vector == params[1]
        where_vector == params[2]
        threshold == params[3]
        order_vector == params[4 + n]
        limit == params[5 + n]
        hits == { j \in Join(bug_rows, embedding_rows) :
                    /\ Similarity(j[2].embedding, where_vector) >= threshold
                    /\ \A i \in 1..n :
                          SqlEq(j[1][filters[i].column], params[3 + i]) }
        dist == [j \in hits |-> CosineDistance(j[2].embedding, order_vector)]
    IN  { [a \in DOMAIN p |-> SearchRow(p[a][1], p[a][2], select_vector)] :
          p \in RankedPrefixes(hits, dist, limit, <<>>) }

----------------------------------------------------------------------------
(* SpecSearch: the similarity searches and tier lookups on a loaded store. *)
(* A session on the bug store makes one tier lookup, or one                *)
(* search_similar_bugs and one hybrid_search for the same request; a       *)
(* session on problem_table makes one search_data.                         *)

\* The bug store after store_bug stored the bugs of s, one call each.
StoredBugs(s) == { BugRow(s[i], i) : i \in DOMAIN s }

StoredEmbeddings(s) ==
    UNION { store_embeddings(i, s[i], NumConfigs(s[i])) : i \in DOMAIN s }

\* A problem_table of more rows than search_data's LIMIT, every row with a
\* description_vector of its own direction.
BigTableKinds ==
    << <<"Backend", <<3, 4>>>>, <<"Frontend", <<1, 0>>>>, <<"", <<0, 1>>>>,
       <<"Backend", <<4, 3>>>>, <<"Frontend", <<-1, 0>>>>,
       <<"Backend", <<0, -1>>>>, <<"Frontend", <<3, -4>>>>,
       <<"Backend", <<-3, 4>>>>, <<"", <<4, -3>>>>, <<"Frontend", <<-4, 3>>>>,
       <<"Backend", <<-3, -4>>>> >>

BigTable == [i \in DOMAIN BigTableKinds |-> TableRow(i, BigTableKinds[i])]

\* What the callers of search_similar_bugs and hybrid_search ask for: the
\* embedding of the query text, the threshold (the two defaults) and the
\* limit.
RagRequests ==
    { [query |-> v, similarity_threshold |-> t, limit |-> n] :
      v \in { <<3, 4>>, <<1, 0>> }, t \in {60, 70}, n \in {1, 10} }

ContentTypeInputs == {None, "description", "resolution"}
ProductInputs == {None, "", "WebApp"}

ResolutionTierInputs ==
    { <<>>,
      << <<2, "Frontend">> >>,
      << <<1, "Technical">>, <<3, "Input Validation">> >>,
      << <<4, "Technical">> >> }

TierLevelInputs == 0..4
TierValueInputs == {"Technical", "Frontend"}
TierLimitInputs == {1, 50}

\* Either rag2's bug store holds up to MaxStored bugs, or rag.py's
\* problem_table is loaded: the two scripts do not share tables.
InitSearch ==
    /\ IdlePre
    /\ IdleIngest
    /\ IdleApi
    /\ bulk_status = "none"
    /\ bulk_bugs = <<>>
    /\ batch_size = 1
    /\ bulk_i = 0
    /\ commits = <<>>
    /\ bulk_failed = [ids |-> <<>>, written |-> 0, cause |-> "none", record |-> 0]
    /\ csv_readable = TRUE
    /\ csv_rows = <<>>
    /\ query_state = "start"
    /\ request = [similarity_threshold |-> 70, limit |-> 10]
    /\ user_prompt_vector = <<>>
    /\ search_results = <<>>
    /\ llm_outcome = "not called"
    /\ final_response = <<>>
    /\ search_call = [status |-> "none"]
    /\ hybrid_call = [status |-> "none"]
    /\ tier_call = [status |-> "none"]
    /\ \/ /\ \E s \in SeqsUpTo(BugInputs, MaxStored) :
                /\ \A i, j \in DOMAIN s : i # j => s[i] # s[j]
                /\ bugs = StoredBugs(s)
                /\ bug_embeddings = StoredEmbeddings(s)
                /\ next_id = Len(s) + 1
                /\ store_calls = Len(s)
                /\ last_store =
                      IF s = <<>> THEN [op |-> "none"]
                      ELSE [ op |-> "store_bug", bug_id |-> Len(s),
                             raised |-> FALSE, inserted |-> TRUE,
                             written |-> NumConfigs(s[Len(s)]) ]
          /\ problem_table = <<>>
          /\ rag_request \in RagRequests
       \/ /\ bugs = {}
          /\ bug_embeddings = {}
          /\ next_id = 1
          /\ store_calls = 0
          /\ last_store = [op |-> "none"]
          /\ problem_table = BigTable
          /\ rag_request = [query |-> <<1, 0>>, similarity_threshold |-> 70,
                            limit |-> 10]

\* search_similar_bugs(query, content_type, product_filter,
\* similarity_threshold, limit): generate_embedding raises, or the rows of
\* the SQL function are returned.
SearchSimilarBugs ==
    /\ problem_table = <<>>
    /\ search_call.status = "none"
    /\ tier_call.status = "none"
    /\ \E content_type \in ContentTypeInputs,
          product_filter \in {None, "WebApp"},
          embedded \in BOOLEAN :
          LET call == [ content_type |-> content_type,
                        product_filter |-> product_filter ]
          IN  IF ~embedded
              THEN search_call' = call @@ [status |-> "raised", rows |-> <<>>]
              ELSE \E rows \in search_similar_bugs_sql(
                                   bugs, bug_embeddings, rag_request.query,
                                   content_type, product_filter,
                                   rag_request.similarity_threshold,
                                   rag_request.limit) :
                      search_call' = call @@ [status |-> "returned",
                                              rows |-> rows]
    /\ UNCHANGED <<rag_request, hybrid_call, tier_call>>
    /\ UNCHANGED <<preVars, storeVars, queryVars, ingestVars, apiVars>>

\* hybrid_search(query, product, resolution_tiers, similarity_threshold,
\* limit): generate_embedding raises, execute raises, or the rows of the
\* statement are returned.
HybridSearch ==
    /\ problem_table = <<>>
    /\ hybrid_call.status = "none"
    /\ tier_call.status = "none"
    /\ \E product \in ProductInputs,
          resolution_tiers \in ResolutionTierInputs,
          embedded \in BOOLEAN :
          LET filters == filter_conditions(product, resolution_tiers)
              params == hybrid_params(rag_request.query,
                                      rag_request.similarity_threshold,
                                      product, resolution_tiers,
                                      rag_request.limit)
              placeholders == hybrid_placeholders(product, resolution_tiers)
              call == [ product |-> product,
                        resolution_tiers |-> resolution_tiers,
                        placeholders |-> placeholders,
                        params |-> Len(params) ]
          IN  IF ~embedded
              THEN hybrid_call' = call @@ [ status |-> "raised",
                                            raised_by |-> "generate_embedding",
                                            rows |-> <<>> ]
              ELSE IF execute_raises(placeholders, params)
              THEN hybrid_call' = call @@ [ status |-> "raised",
                                            raised_by |-> "execute",
                                            rows |-> <<>> ]
              ELSE \E rows \in hybrid_rows(bugs, bug_embeddings,
                                           filters, params) :
                      hybrid_call' = call @@ [ status |-> "returned",
                                               raised_by |-> "nothing",
                                               rows |-> rows ]
    /\ UNCHANGED <<rag_request, search_call, tier_call>>
    /\ UNCHANGED <<preVars, storeVars, queryVars, ingestVars, apiVars>>

\* get_bugs_by_resolution_tier(tier_level, tier_value, limit).
GetBugsByResolutionTier ==
    /\ problem_table = <<>>
    /\ search_call.status = "none"
    /\ hybrid_call.status = "none"
    /\ tier_call.status = "none"
    /\ \E tier_level \in TierLevelInputs,
          tier_value \in TierValueInputs,
          limit \in TierLimitInputs :
          LET call == [ tier_level |-> tier_level, tier_value |-> tier_value,
                        limit |-> limit ]
          IN  IF tier_level \notin DOMAIN column_map
              THEN tier_call' = call @@ [ status |-> "raised",
                                          connected |-> FALSE,
                                          column |-> None, rows |-> <<>> ]
              ELSE tier_call' =
                      call @@ [ status |-> "returned", connected |-> TRUE,
                                column |-> column_map[tier_level],
                                rows |-> select_by_tier(
                                             bugs, column_map[tier_level],
                                             tier_value, limit) ]
    /\ UNCHANGED <<rag_request, search_call, hybrid_call>>
    /\ UNCHANGED <<preVars, storeVars, queryVars, ingestVars, apiVars>>

NextSearch ==
    \/ SearchSimilarBugs
    \/ HybridSearch
    \/ GetBugsByResolutionTier
    \/ problem_table # <<>> /\ SearchData

SpecSearch == InitSearch /\ [][NextSearch]_vars

----------------------------------------------------------------------------
(* SpecIngest: store_in_supabase of src/rag.py, statement by statement *)

\* The row store_in_supabase builds for item idx of data_list (lines
\* 121-133); an item is the (u_resolution_tier_2, description_vector) pair.
InsertData(idx, item) == TableRow(idx + 1, item)

\* A problem_table of up to MaxTableRows rows, and up to MaxData rows to
\* replace them with.
InitIngest ==
    /\ IdlePre
    /\ IdleApi
    /\ IdleStore
    /\ IdleSearch
    /\ \E kinds \in SeqsUpTo(TableRowKinds, MaxTableRows) :
          problem_table = [i \in DOMAIN kinds |-> TableRow(i, kinds[i])]
    /\ csv_readable = TRUE
    /\ csv_rows = <<>>
    /\ query_state = "start"
    /\ request = [similarity_threshold |-> 70, limit |-> 10]
    /\ user_prompt_vector = <<>>
    /\ search_results = <<>>
    /\ llm_outcome = "not called"
    /\ final_response = <<>>
    /\ ingest_state = "called"
    /\ data_list \in SeqsUpTo(TableRowKinds, MaxData)
    /\ ingest_idx = 0
    /\ ingest_error = "none"

IngestUnchanged ==
    /\ UNCHANGED <<csv_readable, csv_rows, query_state, request,
                   user_prompt_vector, search_results, llm_outcome,
                   final_response>>
    /\ UNCHANGED <<preVars, storeVars, searchVars, apiVars>>

\* Line 119: delete().gte("id", 0) removes every row (ids start at 1).
ClearTable ==
    /\ ingest_state = "called"
    /\ problem_table' = SelectSeq(problem_table, LAMBDA r : ~(r.id >= 0))
    /\ ingest_state' = "inserting"
    /\ UNCHANGED <<data_list, ingest_idx, ingest_error>>
    /\ IngestUnchanged

\* Line 119 raises: the except branch prints and the function returns.
ClearTableRaises ==
    /\ ingest_state = "called"
    /\ ingest_state' = "returned"
    /\ ingest_error' = "delete"
    /\ UNCHANGED <<problem_table, data_list, ingest_idx>>
    /\ IngestUnchanged

\* Lines 121-134: one iteration of the loop inserts its row.
InsertRow ==
    /\ ingest_state = "inserting"
    /\ ingest_idx < Len(data_list)
    /\ problem_table' =
          Append(problem_table, InsertData(ingest_idx, data_list[ingest_idx + 1]))
    /\ ingest_idx' = ingest_idx + 1
    /\ UNCHANGED <<ingest_state, data_list, ingest_error>>
    /\ IngestUnchanged

\* Lines 135-136: the insert answers without data; a warning is printed
\* and the loop goes on.
InsertRowNoData ==
    /\ ingest_state = "inserting"
    /\ ingest_idx < Len(data_list)
    /\ ingest_idx' = ingest_idx + 1
    /\ ingest_error' = "no data"
    /\ UNCHANGED <<problem_table, ingest_state, data_list>>
    /\ IngestUnchanged

\* Line 134 raises: the except branch prints and the function returns.
InsertRowRaises ==
    /\ ingest_state = "inserting"
    /\ ingest_idx < Len(data_list)
    /\ ingest_state' = "returned"
    /\ ingest_error' = "insert"
    /\ UNCHANGED <<problem_table, data_list, ingest_idx>>
    /\ IngestUnchanged

\* Line 137: the loop is over, the function returns.
StoreInSupabaseReturns ==
    /\ ingest_state = "inserting"
    /\ ingest_idx >= Len(data_list)
    /\ ingest_state' = "returned"
    /\ UNCHANGED <<problem_table, data_list, ingest_idx, ingest_error>>
    /\ IngestUnchanged

NextIngest ==
    \/ ClearTable
    \/ ClearTableRaises
    \/ InsertRow
    \/ InsertRowNoData
    \/ InsertRowRaises
    \/ StoreInSupabaseReturns

SpecIngest == InitIngest /\ [][NextIngest]_vars

----------------------------------------------------------------------------
(* Claims about preprocess_data, checked under SpecPre *)

EmptyCategory(v) == v \in {NaN, ""}

C9_ResolutionTimeFloor ==
    preState = "done"
    => \A i \in DOMAIN out : out[i].resolution_time_hours >= MinResolutionTime

\* A returned dataset built from a row with reversed timestamps and a row
\* whose timestamps are missing / unparsable, both kept.
C9_Witness ==
    /\ preState = "done"
    /\ dedupRuns = 0
    /\ Len(out) = 2
    /\ \E i \in DOMAIN df :
          /\ df[i].resolved_at >= 0
          /\ df[i].sys_created_on >= 0
          /\ df[i].resolved_at < df[i].sys_created_on
    /\ \E i \in DOMAIN df :
          /\ df[i].resolved_at = NaT
          /\ df[i].sys_created_on = Unparsable

\* C10: deduplication is idempotent: applied to its own output it yields the
\* same row count as the first application.
C10_DedupIdempotent ==
    dedupRuns >= 1 => Len(out) = prevLen

\* The first application removed a duplicate, and it was applied again.
C10_Witness ==
    /\ dedupRuns >= 1
    /\ Len(df) = 2
    /\ prevLen = 1

----------------------------------------------------------------------------
(* Claims about the bug store, checked under SpecStore *)

\* The row of bug under id is committed together with every embedding row
\* _store_embeddings writes for it, and with no other embedding row.
PersistedWhole(bug, id) ==
    /\ BugRow(bug, id) \in bugs
    /\ {e \in bug_embeddings : e.bug_id = id}
           = store_embeddings(id, bug, NumConfigs(bug))

\* Nothing committed carries the id.
NothingPersisted(id) ==
    /\ \A r \in bugs : r.id # id
    /\ \A e \in bug_embeddings : e.bug_id # id

\* The k-th batch of batch_size consecutive records, in input order.
ExpectedBatch(k) ==
    SubSeq(bulk_bugs, (k - 1) * batch_size + 1,
           Min(k * batch_size, Len(bulk_bugs)))

\* C2: bulkStore commits once per batch of batchSize consecutive records
\* taken in input order (the last batch possibly shorter); when batch k
\* fails, the records and embeddings of batches 1..k-1 remain persisted
\* and nothing of batch k is persisted.
C2_BatchCommits ==
    /\ \A k \in DOMAIN commits :
          /\ commits[k].batch = ExpectedBatch(k)
          /\ commits[k].batch # <<>>
          /\ \A j \in DOMAIN commits[k].batch :
                PersistedWhole(commits[k].batch[j], commits[k].ids[j])
    /\ bulk_status = "running" => bulk_i = Len(commits) * batch_size
    /\ bulk_status = "done" =>
          /\ Len(commits) * batch_size >= Len(bulk_bugs)
          /\ (Len(commits) - 1) * batch_size < Len(bulk_bugs)
    /\ bulk_status = "raised" =>
          /\ Len(commits) * batch_size < Len(bulk_bugs)
          /\ \A m \in DOMAIN bulk_failed.ids : NothingPersisted(bulk_failed.ids[m])

\* Three records with batch_size 2: the batch of two is committed, then the
\* shorter last batch raises after some of its embeddings were written.
C2_Witness ==
    /\ bulk_status = "raised"
    /\ Len(bulk_bugs) = 3
    /\ batch_size = 2
    /\ Len(commits) = 1
    /\ Len(commits[1].batch) = 2
    /\ Len(bulk_failed.ids) = 1
    /\ bulk_failed.written >= 1

\* C3: storeIncident is atomic: in every committed state either the
\* incident row and all of its embedding rows are present or none of them
\* is; a failure while generating or inserting an embedding leaves no
\* incident row and no embedding row of that incident behind.
C3_StoreIncidentAtomic ==
    /\ \A r \in bugs : PersistedWhole(BugOf(r), r.id)
    /\ \A e \in bug_embeddings : \E r \in bugs : r.id = e.bug_id
    /\ (last_store.op = "store_bug" /\ last_store.raised)
          => NothingPersisted(last_store.bug_id)
    /\ (last_store.op = "store_bug" /\ ~last_store.raised)
          => \E r \in bugs : r.id = last_store.bug_id

\* store_bug raised after the bug row and at least one embedding row were
\* written in its transaction, on a store that holds other incidents.
C3_Witness ==
    /\ last_store.op = "store_bug"
    /\ last_store.raised
    /\ last_store.inserted
    /\ last_store.written >= 1
    /\ bugs # {}

\* The embedding records bug row b owns.
Owned(b) == { e \in bug_embeddings : e.bug_id = b.id }

OwnedTypes(b) == { e.content_type : e \in Owned(b) }

\* C14 as stated: a stored incident owns one to three embedding records,
\* always the description, the resolution and the combined one only when
\* closing notes exist; without closing notes it owns exactly one.
C14_OneToThreeEmbeddings ==
    \A b \in bugs :
       /\ Cardinality(Owned(b)) \in 1..3
       /\ "description" \in OwnedTypes(b)
       /\ ~Truthy(b.closing_notes) => Cardinality(Owned(b)) = 1
       /\ ~Truthy(b.closing_notes) => OwnedTypes(b) = {"description"}

\* C14 amended: a stored incident owns two or three embedding records, one
\* per content type: always the description and the combined one, the
\* resolution one exactly when closing notes exist; without closing notes
\* it owns exactly two.
C14_TwoOrThreeEmbeddings ==
    \A b \in bugs :
       /\ Cardinality(Owned(b)) = Cardinality(OwnedTypes(b))
       /\ OwnedTypes(b) = {"description", "combined"}
                            \cup (IF Truthy(b.closing_notes)
                                  THEN {"resolution"} ELSE {})
       /\ ~Truthy(b.closing_notes) => Cardinality(Owned(b)) = 2

\* A bug without closing notes and a bug with closing notes are stored.
C14_Witness ==
    /\ \E b \in bugs : b.closing_notes = None /\ Cardinality(Owned(b)) = 2
    /\ \E b \in bugs : Truthy(b.closing_notes) /\ Cardinality(Owned(b)) = 3

\* C15: when the embedding of one record of a bulk ingestion fails, only
\* that record is skipped: every other record of the run, before and after
\* it, is stored with its embeddings (runs of distinct incident numbers).
C15_EmbeddingFailureSkipsOneRecord ==
    ( /\ bulk_status \in {"raised", "done"}
      /\ bulk_failed.cause = "embedding"
      /\ \A m, n \in DOMAIN bulk_bugs :
            m # n => bulk_bugs[m].incident_number # bulk_bugs[n].incident_number )
        => \A m \in DOMAIN bulk_bugs :
              m # bulk_failed.record
                 => \E r \in bugs : /\ BugOf(r) = bulk_bugs[m]
                                    /\ Owned(r) # {}

----------------------------------------------------------------------------
(* Claims about the interactive query path, checked under SpecQuery *)

\* A "Response: ..." line with text after the label.
HasResponseSection(lines) ==
    \E i \in DOMAIN lines : lines[i][1] = "Response" /\ lines[i][2] # ""

\* An "Actionable Steps:" line followed by at least one "- ..." step.
HasActionableSteps(lines) ==
    \E i \in DOMAIN lines :
        /\ lines[i][1] = "Actionable Steps"
        /\ i + 1 \in DOMAIN lines
        /\ lines[i + 1][1] = "-"
        /\ lines[i + 1][2] # ""

\* The three closing lines, in their fixed order, end the response.
EndsWithClosingLines(lines) ==
    /\ Len(lines) >= 3
    /\ lines[Len(lines) - 2][1] = "Resolution Category"
    /\ lines[Len(lines) - 2][2] # ""
    /\ lines[Len(lines) - 1][1] = "Estimated Resolution Time"
    /\ lines[Len(lines) - 1][2] \in
           {"hours", "Unknown (no historical data for this category)"}
    /\ lines[Len(lines)][1] = "Trending Issue Percentage"

\* C1: for any query, similarityThreshold and limit, search returns no
\* result whose similarity (1 - cosine distance to the query vector) is
\* below similarityThreshold, and returns at most limit results.
C1_SearchThresholdAndLimit ==
    query_state # "start" =>
        /\ \A i \in DOMAIN search_results :
               search_results[i][6] >= request.similarity_threshold
        /\ Len(search_results) <= request.limit

\* C4: query-time errors never reach the end user as an exception: for
\* every outcome of reading the historical dataset, of the embedding call,
\* of the database search and of the chat-completion call, the interactive
\* query path returns a displayable answer.
C4_QueryAlwaysAnswers ==
    /\ query_state # "exception"
    /\ query_state = "answered" => final_response # <<>>

\* C5: when the chat-completion call fails or returns an empty completion,
\* the response is the fixed fallback text (a Response line plus generic
\* Actionable Steps) followed by the Resolution Category, Estimated
\* Resolution Time and Trending Issue Percentage lines.
C5_ChatFailureFallsBack ==
    (query_state = "answered" /\ llm_outcome \in {"raises", "empty"}) =>
        /\ Len(final_response) = 8
        /\ SubSeq(final_response, 1, 5) =
               (IF llm_outcome = "raises" THEN ErrorFallback ELSE EmptyFallback)
        /\ HasResponseSection(final_response)
        /\ HasActionableSteps(final_response)
        /\ EndsWithClosingLines(final_response)

\* The chat call raised while answering a query that had search results.
C5_Witness ==
    /\ query_state = "answered"
    /\ llm_outcome = "raises"
    /\ search_results # <<>>
    /\ csv_rows # <<>>

\* C6: if search returns no results, the synthesized response still
\* contains a non-empty Response section and a non-empty Actionable Steps
\* section, plus an explicit Resolution Category and an Estimated
\* Resolution Time that is numeric or an explicit "Unknown".
C6_NoResultsStillAnswered ==
    (query_state \in {"answered", "exception"} /\ search_results = <<>>) =>
        /\ query_state = "answered"
        /\ HasResponseSection(final_response)
        /\ HasActionableSteps(final_response)
        /\ EndsWithClosingLines(final_response)

\* What the closing lines of the response report.
ReportedCategory == final_response[Len(final_response) - 2][2]

ReportedTime == final_response[Len(final_response) - 1]

ReportedTrending == final_response[Len(final_response)][2]

\* The historical records tagged with category c.
Tagged(rows, c) == SelectSeq(rows, LAMBDA r : r.u_resolution_tier_2 = c)

\* The categories no other category of the dataset is more frequent than.
MostFrequent(rows) ==
    { c \in SeqToSet(Column(rows, "u_resolution_tier_2")) \ {NaN} :
        \A d \in SeqToSet(Column(rows, "u_resolution_tier_2")) \ {NaN} :
           Len(Tagged(rows, c)) >= Len(Tagged(rows, d)) }

\* C18: the category a response reports is the tier of the top-ranked
\* search result when there is a result and its tier is not empty;
\* otherwise it is the mode category of the whole historical dataset.
C18_CategoryResolution ==
    query_state = "answered" =>
       IF search_results # <<>> /\ search_results[1][4] \notin {"", None}
       THEN ReportedCategory = search_results[1][4]
       ELSE MostFrequent(csv_rows) # {}
               => ReportedCategory \in MostFrequent(csv_rows)

\* The time line of a response is the mean over records, Unknown if none.
TimeIsMeanOver(records) ==
    IF records = <<>>
    THEN ReportedTime[2] # "hours"
    ELSE /\ ReportedTime[2] = "hours"
         /\ ReportedTime[3] =
               Round(Sum(Column(records, "resolution_time_hours")) * 10,
                     Len(records))

\* C19: the Estimated Resolution Time of a response is the mean of
\* resolution_time_hours over the historical records whose category is the
\* one the response reports as Resolution Category, and Unknown when no
\* historical record has that category. The historical records are taken
\* either as the cleaned dataset or as every row read, each with its own
\* category and duration.
C19_TimeIsMeanOfReportedCategory ==
    query_state = "answered" =>
       \E now1 \in NowValues, now2 \in NowValues :
          LET cleaned == IF csv_rows = <<>> THEN <<>>
                         ELSE preprocess_rows(csv_rows, now1, now2)
              as_read == [i \in DOMAIN csv_rows |->
                            FillRow(csv_rows[i], csv_rows[i].u_resolution_tier_2,
                                    now1, now2)]
          IN  \/ TimeIsMeanOver(Tagged(cleaned, ReportedCategory))
              \/ TimeIsMeanOver(Tagged(as_read, ReportedCategory))

\* C20: the trending percentage of a response is the share of historical
\* records tagged with the reported category, times 100 (in hundredths of a
\* percent, rounded as printed), and 0 when the dataset is empty.
C20_TrendingPercentage ==
    query_state = "answered" =>
       ReportedTrending =
          IF csv_rows = <<>> THEN 0
          ELSE Round(Len(Tagged(csv_rows, ReportedCategory)) * 10000,
                     Len(csv_rows))

\* The example: 3 incidents, 2 tagged Frontend and 1 Backend, the top result
\* is tagged Backend; the response reports Backend and 33.33%.
C20_Witness ==
    /\ query_state = "answered"
    /\ Len(csv_rows) = 3
    /\ Len(Tagged(csv_rows, "Frontend")) = 2
    /\ Len(Tagged(csv_rows, "Backend")) = 1
    /\ search_results # <<>>
    /\ search_results[1][4] = "Backend"
    /\ ReportedCategory = "Backend"
    /\ ReportedTrending = 3333

----------------------------------------------------------------------------
(* Claims about the read calls, checked under SpecSearch *)

\* The place of row r in rows.
Position(rows, r) == CHOOSE i \in DOMAIN rows : rows[i] = r

\* hybrid_search was called with neither product nor resolution tiers, and
\* the embedding service answered.
HybridUnfiltered ==
    /\ hybrid_call.status # "none"
    /\ hybrid_call.raised_by # "generate_embedding"
    /\ hybrid_call.product = None
    /\ hybrid_call.resolution_tiers = <<>>

\* C11: for the same query, threshold and limit, hybrid_search without
\* filters returns every row that search_similar_bugs returns, and the rows
\* of search_similar_bugs come in the same order in it.
C11_HybridSupersetOfSearch ==
    (search_call.status = "returned" /\ HybridUnfiltered)
        => /\ hybrid_call.status = "returned"
           /\ \A a \in DOMAIN search_call.rows :
                 \E b \in DOMAIN hybrid_call.rows :
                    hybrid_call.rows[b] = search_call.rows[a]
           /\ \A a, b \in DOMAIN search_call.rows :
                 a < b => Position(hybrid_call.rows, search_call.rows[a])
                            < Position(hybrid_call.rows, search_call.rows[b])

\* The rows of problem_table that search_data did not return.
LeftOut ==
    { i \in DOMAIN problem_table :
        \A a \in DOMAIN search_results : search_results[a][1] # problem_table[i].id }

\* C12: the results of a search are in descending similarity, and no row
\* that passes the filters and was left out is more similar to the query
\* than a returned one (search_data has no filter; hybrid_search filters by
\* threshold, product and tiers).
C12_RankedBySimilarity ==
    /\ query_state = "searched" =>
          /\ \A a, b \in DOMAIN search_results :
                a < b => search_results[a][6] >= search_results[b][6]
          /\ \A i \in LeftOut : \A a \in DOMAIN search_results :
                Similarity(problem_table[i].description_vector,
                           user_prompt_vector) <= search_results[a][6]
    /\ hybrid_call.status = "returned" =>
          /\ \A a, b \in DOMAIN hybrid_call.rows :
                a < b => hybrid_call.rows[a].similarity_score
                            >= hybrid_call.rows[b].similarity_score
          /\ \A j \in Join(bugs, bug_embeddings) :
                LET row == SearchRow(j[1], j[2], rag_request.query)
                    filters == filter_conditions(hybrid_call.product,
                                                 hybrid_call.resolution_tiers)
                IN  ( /\ \A a \in DOMAIN hybrid_call.rows :
                            hybrid_call.rows[a] # row
                      /\ row.similarity_score >= rag_request.similarity_threshold
                      /\ \A f \in DOMAIN filters :
                            SqlEq(j[1][filters[f].column], filters[f].value) )
                    => \A a \in DOMAIN hybrid_call.rows :
                          row.similarity_score
                              <= hybrid_call.rows[a].similarity_score

\* search_data cut the ranking at its limit and left out a less similar row.
C12_Witness ==
    /\ query_state = "searched"
    /\ Len(search_results) = SearchLimit
    /\ \E i \in LeftOut :
          Similarity(problem_table[i].description_vector, user_prompt_vector)
              < search_results[SearchLimit][6]
    /\ \E a, b \in DOMAIN search_results : search_results[a][6] > search_results[b][6]

\* The tier column of a level, as the claim names it.
TierColumnOfLevel(level) ==
    CASE level = 1 -> "resolution_tier_1"
      [] level = 2 -> "resolution_tier_2"
      [] level = 3 -> "resolution_tier_3"

\* Bug row b satisfies every equality filter the hybrid_search call was
\* given: the product, and the value of each tier level 1, 2, 3.
SatisfiesSupplied(b) ==
    /\ Truthy(hybrid_call.product) => b.product = hybrid_call.product
    /\ \A i \in DOMAIN hybrid_call.resolution_tiers :
          LET item == hybrid_call.resolution_tiers[i]
          IN  item[1] \in {1, 2, 3} => b[TierColumnOfLevel(item[1])] = item[2]

\* C13: hybrid_search returns only records that satisfy every supplied
\* equality filter, and a filter that is not supplied keeps no record out:
\* a record at or above the threshold that satisfies the supplied filters
\* is returned unless the limit is reached.
C13_HybridFiltersRespected ==
    (hybrid_call.status # "none" /\ hybrid_call.raised_by # "generate_embedding")
        => /\ hybrid_call.status = "returned"
           /\ \A a \in DOMAIN hybrid_call.rows :
                 \E j \in Join(bugs, bug_embeddings) :
                    /\ SearchRow(j[1], j[2], rag_request.query) = hybrid_call.rows[a]
                    /\ SatisfiesSupplied(j[1])
           /\ \A j \in Join(bugs, bug_embeddings) :
                 LET row == SearchRow(j[1], j[2], rag_request.query)
                 IN  ( /\ SatisfiesSupplied(j[1])
                       /\ row.similarity_score >= rag_request.similarity_threshold )
                     => \/ \E a \in DOMAIN hybrid_call.rows :
                              hybrid_call.rows[a] = row
                        \/ Len(hybrid_call.rows) = rag_request.limit

\* C17: get_bugs_by_resolution_tier with a level outside {1, 2, 3} raises
\* before a connection is opened or a query built; with a level in
\* {1, 2, 3} it queries the tier column of that level: every returned bug
\* has the value in that column, and a bug that has it is returned unless
\* the limit is reached.
C17_FindByTierValidatesLevel ==
    tier_call.status # "none" =>
       /\ tier_call.tier_level \notin {1, 2, 3} =>
             /\ tier_call.status = "raised"
             /\ ~tier_call.connected
             /\ tier_call.column = None
             /\ tier_call.rows = <<>>
       /\ tier_call.tier_level \in {1, 2, 3} =>
             LET column == TierColumnOfLevel(tier_call.tier_level)
             IN  /\ tier_call.status = "returned"
                 /\ tier_call.column = column
                 /\ \A a \in DOMAIN tier_call.rows :
                       /\ tier_call.rows[a] \in bugs
                       /\ tier_call.rows[a][column] = tier_call.tier_value
                 /\ \A b \in bugs :
                       b[column] = tier_call.tier_value
                          => \/ \E a \in DOMAIN tier_call.rows :
                                   tier_call.rows[a] = b
                             \/ Len(tier_call.rows) = tier_call.limit

\* A lookup on level 2 returned a bug while the store holds another bug
\* that has the value on another level only or not at all.
C17_Witness ==
    /\ tier_call.status = "returned"
    /\ tier_call.tier_level = 2
    /\ tier_call.rows # <<>>
    /\ \E b \in bugs : b.resolution_tier_2 # tier_call.tier_value

----------------------------------------------------------------------------
(* Claims about store_in_supabase, checked under SpecIngest *)

\* The table that holds exactly the rows of data_list.
Reloaded == [i \in DOMAIN data_list |-> InsertData(i - 1, data_list[i])]

\* C16: store_in_supabase clears the whole table before its first insert
\* (while it inserts, the table holds only rows of data_list), and once it
\* has returned the table holds exactly the rows of data_list.
C16_ReplaceAllReloads ==
    /\ ingest_state = "inserting" =>
          problem_table = SubSeq(Reloaded, 1, ingest_idx)
    /\ ingest_state = "returned" => problem_table = Reloaded


----------------------------------------------------------------------------
(* The task API of src/api.py.                                             *)
(*                                                                         *)
(* gunicorn runs sync workers, each a process of its own that serves one   *)
(* request at a time and opens a new SQLite connection for it.  A handler  *)
(* is a sequence of steps, one per statement it sends to the database;     *)
(* what it computes between two statements is local and belongs to the     *)
(* step of the statement before it.  A connection starts a transaction at  *)
(* its first INSERT, UPDATE or DELETE and holds the write lock until       *)
(* commit(); its SELECTs outside a transaction read the committed rows.    *)
(* A statement that needs the write lock waits for it: the busy timeout    *)
(* of the connection, failures of the database file, and the created_at    *)
(* and updated_at columns are left out.                                    *)
(*                                                                         *)
(* A string is a sequence of tokens, WS standing for a run of whitespace   *)
(* and any other token for a run of other characters.                      *)

WS == " "

RECURSIVE lstrip(_)
lstrip(s) == IF s # <<>> /\ Head(s) = WS THEN lstrip(Tail(s)) ELSE s

RECURSIVE rstrip(_)
rstrip(s) ==
    IF s # <<>> /\ s[Len(s)] = WS THEN rstrip(SubSeq(s, 1, Len(s) - 1)) ELSE s

\* A strip() that trims the front only.
strip_leading_only(s) == lstrip(s)

\* str.strip(): whitespace removed at both ends, kept inside.
strip(s) == rstrip(lstrip(s))

valid_statuses ==
    { <<"pending">>, <<"in_progress">>, <<"completed">>, <<"cancelled">> }

\* A member of the JSON object of a request: missing, a value that is not
\* a string (null, a number, a list), or a string.
Absent == [kind |-> "absent", value |-> <<>>]
NonString == [kind |-> "nonstring", value |-> <<>>]
Str(v) == [kind |-> "string", value |-> v]

DetailInputs == { <<WS>>, <<WS, "a", WS, "b", WS>> }
StatusInputs == { <<"completed", WS>>, <<"done">> }

DetailFields == {Absent, NonString} \cup {Str(v) : v \in DetailInputs}
StatusFields == {Absent, NonString} \cup {Str(v) : v \in StatusInputs}

\* The bodies a request can carry: text that is not JSON, a JSON value
\* that is falsy (null, {}, [], 0, ""), a JSON number other than 0, or a
\* JSON object with at least one member.
Bodies ==
    { [kind |-> k, task_detail |-> Absent, task_status |-> Absent] :
        k \in {"malformed", "falsy", "number"} }
    \cup { [kind |-> "object", task_detail |-> d, task_status |-> t] :
             d \in DetailFields, t \in StatusFields }

\* The ids a request can name: those of the sample rows and the first one
\* a POST creates.
RequestIds == 1..(MaxSample + 1)

\* The rows create_sample_data left in the table.
SampleTasks ==
    { [id |-> i, task_detail |-> <<"doc">>, task_status |-> <<"pending">>] :
        i \in 1..MaxSample }

\* SELECT * FROM tasks WHERE id = ?: the rows fetchone() can return, none
\* standing for None.
SelectById(rows, i) == {r \in rows : r.id = i}

\* What create_task decides before it opens its connection: code 0 to go
\* on to the INSERT, or the code of its response.
create_task_checks(body) ==
    LET detail == strip(body.task_detail.value)
        status == IF body.task_status.kind = "absent"
                    THEN <<"pending">>
                    ELSE strip(body.task_status.value)
        answer(c) == [code |-> c, task_detail |-> <<>>, task_status |-> <<>>]
    IN  IF body.kind = "malformed" THEN answer(500)
        ELSE IF body.kind = "falsy" THEN answer(400)
        ELSE IF body.kind = "number" THEN answer(500)
        ELSE IF body.task_detail.kind = "absent" THEN answer(400)
        ELSE IF body.task_detail.kind = "nonstring" THEN answer(500)
        ELSE IF body.task_status.kind = "nonstring" THEN answer(500)
        ELSE IF detail = <<>> THEN answer(400)
        ELSE IF status \notin valid_statuses THEN answer(400)
        ELSE [code |-> 0, task_detail |-> detail, task_status |-> status]

\* What update_task decides from the body and the row its first SELECT
\* returned, up to the UPDATE: code 0 to go on, or the code of its
\* response.  A field left out of the update is the empty sequence, which
\* no accepted field is.
update_task_checks(body, existing_task) ==
    LET detail == strip(body.task_detail.value)
        status == strip(body.task_status.value)
        answer(c) == [code |-> c, task_detail |-> <<>>, task_status |-> <<>>]
    IN  IF body.kind = "malformed" THEN answer(500)
        ELSE IF body.kind = "falsy" THEN answer(400)
        ELSE IF existing_task = {} THEN answer(404)
        ELSE IF body.kind = "number" THEN answer(500)
        ELSE IF body.task_detail.kind = "nonstring" THEN answer(500)
        ELSE IF body.task_detail.kind = "string" /\ detail = <<>>
            THEN answer(400)
        ELSE IF body.task_status.kind = "nonstring" THEN answer(500)
        ELSE IF body.task_status.kind = "string" /\ status \notin valid_statuses
            THEN answer(400)
        ELSE IF body.task_detail.kind = "absent"
                /\ body.task_status.kind = "absent"
            THEN answer(400)
        ELSE [code |-> 0,
              task_detail |-> IF body.task_detail.kind = "string"
                                THEN detail ELSE <<>>,
              task_status |-> IF body.task_status.kind = "string"
                                THEN status ELSE <<>>]

\* UPDATE tasks SET ... WHERE id = ?: the named row with the supplied
\* fields replaced, every other row as it was.
UpdateRow(rows, i, detail, status) ==
    { IF r.id = i
        THEN [r EXCEPT !.task_detail = IF detail # <<>> THEN detail ELSE @,
                       !.task_status = IF status # <<>> THEN status ELSE @]
        ELSE r : r \in rows }

InitApi ==
    /\ IdlePre
    /\ IdleStore
    /\ IdleQuery
    /\ IdleSearch
    /\ IdleIngest
    /\ tasks \in {{}, SampleTasks}
    /\ task_seq = Cardinality(tasks)
    /\ db_writer = 0
    /\ worker = [w \in Workers |-> IdleWorker]
    /\ served = 0
    /\ deletes_ok = [i \in TaskIds |-> 0]

ApiUnchanged ==
    UNCHANGED <<preVars, storeVars, queryVars, searchVars, ingestVars>>

\* A sync worker takes a request when it has none in hand.
Free(w) == worker[w].pc \in {"idle", "done"} /\ served < MaxRequests

\* The worker's record once its handler has returned.
Answered(rec, c, d) == [rec EXCEPT !.pc = "done", !.code = c, !.data = d]

\* POST /api/tasks up to the INSERT: get_json() and the checks of the
\* body.
CreateTaskValidate(w, body) ==
    /\ Free(w)
    /\ LET chk == create_task_checks(body)
           rec == [IdleWorker EXCEPT !.method = "POST",
                                     !.task_detail = chk.task_detail,
                                     !.task_status = chk.task_status]
       IN  worker' = [worker EXCEPT ![w] =
                IF chk.code = 0 THEN [rec EXCEPT !.pc = "insert"]
                ELSE Answered(rec, chk.code, {})]
    /\ served' = served + 1
    /\ UNCHANGED <<tasks, task_seq, db_writer, deletes_ok>>
    /\ ApiUnchanged

\* cursor.execute(INSERT) and cursor.lastrowid: the row joins the
\* connection's transaction under the next id.
CreateTaskInsert(w) ==
    /\ worker[w].pc = "insert"
    /\ db_writer = 0
    /\ db_writer' = w
    /\ task_seq' = task_seq + 1
    /\ worker' = [worker EXCEPT ![w] =
            [@ EXCEPT !.pc = "commit",
                      !.task_id = task_seq + 1,
                      !.writes = @ + 1,
                      !.tx = tasks \cup
                          {[id |-> task_seq + 1,
                            task_detail |-> worker[w].task_detail,
                            task_status |-> worker[w].task_status]}]]
    /\ UNCHANGED <<tasks, served, deletes_ok>>
    /\ ApiUnchanged

CreateTaskCommit(w) ==
    /\ worker[w].pc = "commit"
    /\ worker[w].method = "POST"
    /\ tasks' = worker[w].tx
    /\ db_writer' = 0
    /\ worker' = [worker EXCEPT ![w] = [@ EXCEPT !.pc = "select", !.tx = {}]]
    /\ UNCHANGED <<task_seq, served, deletes_ok>>
    /\ ApiUnchanged

\* The SELECT of the created row and dict(cursor.fetchone()), which raises
\* TypeError when the row is gone.
CreateTaskSelect(w) ==
    /\ worker[w].pc = "select"
    /\ worker[w].method = "POST"
    /\ LET new_task == SelectById(tasks, worker[w].task_id)
       IN  worker' = [worker EXCEPT ![w] =
                IF new_task = {} THEN Answered(@, 500, {})
                ELSE Answered(@, 201, new_task)]
    /\ UNCHANGED <<tasks, task_seq, db_writer, served, deletes_ok>>
    /\ ApiUnchanged

\* PUT /api/tasks/<id> up to the UPDATE: get_json(), the SELECT of the
\* existing row and the checks of the body.
UpdateTaskCheck(w, i, body) ==
    /\ Free(w)
    /\ LET chk == update_task_checks(body, SelectById(tasks, i))
           rec == [IdleWorker EXCEPT !.method = "PUT",
                                     !.task_id = i,
                                     !.task_detail = chk.task_detail,
                                     !.task_status = chk.task_status]
       IN  worker' = [worker EXCEPT ![w] =
                IF chk.code = 0 THEN [rec EXCEPT !.pc = "update"]
                ELSE Answered(rec, chk.code, {})]
    /\ served' = served + 1
    /\ UNCHANGED <<tasks, task_seq, db_writer, deletes_ok>>
    /\ ApiUnchanged

\* cursor.execute(UPDATE): the row, if it is still there, changes in the
\* connection's transaction.
UpdateTaskExecute(w) ==
    /\ worker[w].pc = "update"
    /\ db_writer = 0
    /\ db_writer' = w
    /\ worker' = [worker EXCEPT ![w] =
            [@ EXCEPT !.pc = "commit",
                      !.writes = @ + Cardinality(SelectById(tasks, worker[w].task_id)),
                      !.tx = UpdateRow(tasks, worker[w].task_id,
                                       worker[w].task_detail,
                                       worker[w].task_status)]]
    /\ UNCHANGED <<tasks, task_seq, served, deletes_ok>>
    /\ ApiUnchanged

UpdateTaskCommit(w) ==
    /\ worker[w].pc = "commit"
    /\ worker[w].method = "PUT"
    /\ tasks' = worker[w].tx
    /\ db_writer' = 0
    /\ worker' = [worker EXCEPT ![w] = [@ EXCEPT !.pc = "select", !.tx = {}]]
    /\ UNCHANGED <<task_seq, served, deletes_ok>>
    /\ ApiUnchanged

\* The SELECT of the updated row and dict(cursor.fetchone()), which raises
\* TypeError when the row is gone.
UpdateTaskSelect(w) ==
    /\ worker[w].pc = "select"
    /\ worker[w].method = "PUT"
    /\ LET updated_task == SelectById(tasks, worker[w].task_id)
       IN  worker' = [worker EXCEPT ![w] =
                IF updated_task = {} THEN Answered(@, 500, {})
                ELSE Answered(@, 200, updated_task)]
    /\ UNCHANGED <<tasks, task_seq, db_writer, served, deletes_ok>>
    /\ ApiUnchanged

\* DELETE /api/tasks/<id> up to the DELETE: the SELECT of the existing row.
DeleteTaskCheck(w, i) ==
    /\ Free(w)
    /\ LET rec == [IdleWorker EXCEPT !.method = "DELETE", !.task_id = i]
       IN  worker' = [worker EXCEPT ![w] =
                IF SelectById(tasks, i) = {} THEN Answered(rec, 404, {})
                ELSE [rec EXCEPT !.pc = "delete"]]
    /\ served' = served + 1
    /\ UNCHANGED <<tasks, task_seq, db_writer, deletes_ok>>
    /\ ApiUnchanged

\* cursor.execute(DELETE): the row, if it is still there, leaves in the
\* connection's transaction.
DeleteTaskExecute(w) ==
    /\ worker[w].pc = "delete"
    /\ db_writer = 0
    /\ db_writer' = w
    /\ worker' = [worker EXCEPT ![w] =
            [@ EXCEPT !.pc = "commit",
                      !.writes = @ + Cardinality(SelectById(tasks, worker[w].task_id)),
                      !.tx = tasks \ SelectById(tasks, worker[w].task_id)]]
    /\ UNCHANGED <<tasks, task_seq, served, deletes_ok>>
    /\ ApiUnchanged

\* conn.commit() and the 200 that follows it.
DeleteTaskCommit(w) ==
    /\ worker[w].pc = "commit"
    /\ worker[w].method = "DELETE"
    /\ tasks' = worker[w].tx
    /\ db_writer' = 0
    /\ worker' = [worker EXCEPT ![w] = Answered([@ EXCEPT !.tx = {}], 200, {})]
    /\ deletes_ok' = [deletes_ok EXCEPT ![worker[w].task_id] = @ + 1]
    /\ UNCHANGED <<task_seq, served>>
    /\ ApiUnchanged

NextApi ==
    \E w \in Workers :
        \/ \E body \in Bodies : CreateTaskValidate(w, body)
        \/ CreateTaskInsert(w)
        \/ CreateTaskCommit(w)
        \/ CreateTaskSelect(w)
        \/ \E i \in RequestIds, body \in Bodies : UpdateTaskCheck(w, i, body)
        \/ UpdateTaskExecute(w)
        \/ UpdateTaskCommit(w)
        \/ UpdateTaskSelect(w)
        \/ \E i \in RequestIds : DeleteTaskCheck(w, i)
        \/ DeleteTaskExecute(w)
        \/ DeleteTaskCommit(w)

SpecApi == InitApi /\ [][NextApi]_vars

----------------------------------------------------------------------------
(* Claims about the task API.                                              *)

\* A non-empty string with no whitespace at either end.
Trimmed(s) == s # <<>> /\ s[1] # WS /\ s[Len(s)] # WS

\* The four statuses the claims name.
ClaimedStatuses ==
    { <<"pending">>, <<"in_progress">>, <<"completed">>, <<"cancelled">> }

\* The requests a worker has answered with one of the given codes.
AnsweredWith(codes) ==
    {w \in Workers : worker[w].pc = "done" /\ worker[w].code \in codes}

\* C21: after any sequence of POST, PUT and DELETE requests every stored
\* task has a non-empty task_detail without whitespace at its ends and a
\* task_status among pending, in_progress, completed and cancelled, and a
\* request answered with 400 or 404 has changed no row of the table.
C21_StoredTasksValid ==
    /\ \A r \in tasks :
        /\ Trimmed(r.task_detail)
        /\ r.task_status \in ClaimedStatuses
    /\ \A w \in AnsweredWith({400, 404}) : worker[w].writes = 0

\* A task stored from a detail and a status that came with whitespace
\* around them, next to a request that was answered with 400 or 404.
C21_Witness ==
    /\ \E r \in tasks :
        /\ r.task_detail = <<"a", WS, "b">>
        /\ r.task_status = <<"completed">>
    /\ AnsweredWith({400, 404}) # {}

\* The PUT requests that found their task, passed the checks of their
\* body and sent their UPDATE.
SentUpdate ==
    { w \in AnsweredWith({200, 400, 404, 500}) :
        /\ worker[w].method = "PUT"
        /\ worker[w].task_detail # <<>> \/ worker[w].task_status # <<>> }

\* C22: under any interleaving of PUT and DELETE requests on the same task
\* id served by different workers no request ends in a 500 response: a PUT
\* that has sent its UPDATE returns 200 with the task of its id, and a
\* DELETE returns 200 or 404.
C22_NoServerErrorUnderInterleaving ==
    /\ \A w \in SentUpdate :
        /\ worker[w].code = 200
        /\ \E r \in worker[w].data : r.id = worker[w].task_id
    /\ \A w \in AnsweredWith({200, 400, 404, 500}) :
        worker[w].method = "DELETE" => worker[w].code \in {200, 404}

\* The second half of C22: at most one DELETE of a given task returns 200.
C22_AtMostOneDeleteSucceeds == \A i \in TaskIds : deletes_ok[i] <= 1

====
